---- MODULE Spec2Model ----
(***************************************************************************)
(* A model of the backlight utility src/brightness.c: one run of main per  *)
(* invocation, the advisory lock on /tmp/brightLOCK, the sysfs brightness  *)
(* and max_brightness cells, the toggle-memory file and the transition     *)
(* engine FadeTo.                                                          *)
(*                                                                         *)
(* Modelling notes.                                                        *)
(*  - The sysfs cells hold an integer; every access goes through the       *)
(*    decimal text the program prints ("%i\n") and parses (atoi).  The     *)
(*    toggle-memory file is a regular file and holds its text.             *)
(*  - fade_step is a double in the source; it is held here as the rational *)
(*    <<numerator, denominator>>.  round() is round-half-away-from-zero;   *)
(*    for the values used here the double product has the same rounding as *)
(*    the rational one (0.1 as a double is 0.1 * (1 + 2^-54), below half   *)
(*    an ulp of every x.5 product).                                        *)
(*  - System calls that the code checks are given every outcome the code   *)
(*    distinguishes (open/fopen failure, a failed write, the errno classes *)
(*    of fcntl, the results of nanosleep).                                 *)
(*  - Undefined behaviour is a choice over its outcomes: the signed        *)
(*    overflow of brightness += change (wraps, or traps), the uninitialised*)
(*    `action` pointer handed to sprintf (crashes, or prints garbage), the *)
(*    uninitialised getline buffer of an empty file (any integer).         *)
(*  - The notification (system()) and all printing change no state that    *)
(*    the program reads again and are left out; so is the notify flag.     *)
(*  - The executable's directory is assumed short enough for cachepath     *)
(*    (char cachepath[len+20], len = sizeof(char * )) not to overflow.      *)
(***************************************************************************)
EXTENDS Integers, Sequences, FiniteSets, TLC

(* ------------------------------ bounds --------------------------------- *)

\* Number of invocations of the program that may run concurrently.
NumProcs == 2

\* Largest value of the max_brightness cell (852 on the author's machine).
MaxBright == 6

\* Largest lower_limit a build is configured with.
MaxLowerLimit == 2

(* ------------------------- program constants --------------------------- *)

\* The range check of FadeTo: target > 852 is refused.
HardCeiling == 852

\* INT_MAX of a 32-bit int.
IntMax == 2147483647

\* errno values the code compares against (only their distinctness matters).
EINTR == 4
EOTHER == 22

\* The text of a file that cannot be opened (no file has this text).
NoFile == <<"nofile">>

\* A sysfs cell holding the integer v, and one that cannot be opened.
Cell(v) == <<v>>
NoCell == << >>

Procs == 1..NumProcs

(* ------------------------- decimal text -------------------------------- *)

Digits == <<"0", "1", "2", "3", "4", "5", "6", "7", "8", "9">>

IsDigit(c) == \E d \in 1..10 : Digits[d] = c

DigitVal(c) == (CHOOSE d \in 1..10 : Digits[d] = c) - 1

RECURSIVE NatToStr(_)
NatToStr(n) ==
    IF n < 10 THEN <<Digits[n + 1]>>
    ELSE Append(NatToStr(n \div 10), Digits[(n % 10) + 1])

\* fprintf(f, "%i\n", n): the characters written.
FormatInt(n) ==
    (IF n < 0 THEN <<"-">> \o NatToStr(-n) ELSE NatToStr(n)) \o <<"\n">>

RECURSIVE AtoiDigits(_, _, _)
AtoiDigits(s, k, acc) ==
    IF k > Len(s) \/ ~IsDigit(s[k]) THEN acc
    ELSE AtoiDigits(s, k + 1, acc * 10 + DigitVal(s[k]))

RECURSIVE SkipSpace(_, _)
SkipSpace(s, k) ==
    IF k <= Len(s) /\ s[k] \in {" ", "\n", "\t"} THEN SkipSpace(s, k + 1) ELSE k

\* atoi(): leading white space, an optional sign, then digits up to the
\* first character that is not one; no digits give 0.
Atoi(s) ==
    LET k == SkipSpace(s, 1)
    IN  IF k <= Len(s) /\ s[k] = "-" THEN -AtoiDigits(s, k + 1, 0)
        ELSE IF k <= Len(s) /\ s[k] = "+" THEN AtoiDigits(s, k + 1, 0)
        ELSE AtoiDigits(s, k, 0)

\* What an uninitialised buffer may parse to.
IndeterminateInts == {-1, 0, 1, MaxBright + 2}

\* ReadSysFile on a regular file with the given text: the set of values it
\* may return.  A missing file gives -1; an empty file leaves the getline
\* buffer unwritten.
ReadSysFile(text) ==
    IF text = NoFile THEN {-1}
    ELSE IF text = <<>> THEN IndeterminateInts
    ELSE {Atoi(text)}

\* ReadSysFile on a sysfs cell: the kernel prints the integer it holds as
\* "%d\n"; -1 when the cell cannot be opened.
ReadSysCell(c) ==
    IF c = NoCell THEN -1 ELSE Atoi(FormatInt(c[1]))

\* A store that keeps nothing of the text written to it.
StoreSysCellZero(text) == Cell(0)

\* A sysfs cell after the text has been written to it: the kernel parses
\* the number.
StoreSysCell(text) == Cell(Atoi(text))

(* ------------------------- arithmetic ---------------------------------- *)

Abs(x) == IF x < 0 THEN -x ELSE x

\* round(p / q) for q > 0: half away from zero, as round() of <math.h>.
RoundDiv(p, q) ==
    IF p >= 0 THEN (2 * p + q) \div (2 * q)
    ELSE -((2 * (-p) + q) \div (2 * q))

\* a + b of two ints, b >= 0, overflows.
AddOverflows(a, b) == b > 0 /\ a > IntMax - b

\* The 32-bit int a + b wraps to when it overflows: a + b - 2^32.
WrapAdd(a, b) == (((a - IntMax) + b) - IntMax) - 2

(* ------------------------- command line -------------------------------- *)

\* ProgramArguments after main's initialisation: no flag given.
\* argc1 is argc == 1 (the program was run with no argument at all).
NoArguments ==
    [argc1 |-> FALSE, verbose |-> 0, quiet |-> 0, iconpath |-> 0,
     percent |-> 0, tog |-> 0, inc |-> -1, dec |-> -1, set |-> -1]

\* The values given to --inc, --dec and --set.
ArgVals == {0, 5, MaxBright + 1, IntMax}

\* The operations tried: toggle, and inc, dec and set of each value.
OpSets ==
    { [NoArguments EXCEPT !.tog = 1] }
    \cup { [NoArguments EXCEPT !.inc = n] : n \in ArgVals }
    \cup { [NoArguments EXCEPT !.dec = n] : n \in ArgVals }
    \cup { [NoArguments EXCEPT !.set = n] : n \in ArgVals }

\* The command lines an invocation is given: none at all; every operation,
\* plain and with -v; -v alone; some operations with -q, -I and -p; the
\* conflicts -v -q and -t -i.  (A percentage of INT_MAX is left out: its
\* product does not fit the checker's integers.)
ArgSet ==
    { [NoArguments EXCEPT !.argc1 = TRUE] }
    \cup OpSets
    \cup { [o EXCEPT !.verbose = 1] : o \in OpSets \cup {NoArguments} }
    \cup { [NoArguments EXCEPT !.tog = 1, !.quiet = 1],
           [NoArguments EXCEPT !.dec = 5, !.quiet = 1],
           [NoArguments EXCEPT !.inc = 5, !.iconpath = 1],
           [NoArguments EXCEPT !.inc = 5, !.percent = 1],
           [NoArguments EXCEPT !.inc = 50, !.percent = 1],
           [NoArguments EXCEPT !.dec = 50, !.percent = 1],
           [NoArguments EXCEPT !.set = 50, !.percent = 1],
           [NoArguments EXCEPT !.set = 150, !.percent = 1],
           [NoArguments EXCEPT !.set = 5, !.verbose = 1, !.quiet = 1],
           [NoArguments EXCEPT !.tog = 1, !.inc = 5] }

\* main, lines 531-536.
totalNonPassive(a) ==
    (IF a.inc >= 0 THEN 1 ELSE 0) + (IF a.dec >= 0 THEN 1 ELSE 0)
    + (IF a.set >= 0 THEN 1 ELSE 0) + a.tog

\* main, lines 546-547: the command line is refused.
InvalidArguments(a) ==
    \/ totalNonPassive(a) > 1
    \/ (a.verbose = 1 /\ (a.iconpath = 1 \/ a.quiet = 1))

(* ------------------------- bounds and delta ----------------------------- *)

\* round(n / percentifier), percentifier = 100 / max_brightness.
Percentify(n, max) == RoundDiv(n * max, 100)

\* main, lines 608-626: the requested change of inc, dec and set.
RequestedChange(a, b, max) ==
    IF a.inc > 0 THEN (IF a.percent = 1 THEN Percentify(a.inc, max) ELSE a.inc)
    ELSE IF a.dec > 0
         THEN -(IF a.percent = 1 THEN Percentify(a.dec, max) ELSE a.dec)
    ELSE IF a.set >= 0
         THEN (IF a.percent = 1 THEN Percentify(a.set, max) ELSE a.set) - b
    ELSE 0

\* Whether the branch taken in lines 608-626 assigns `action`.
ActionAssigned(a) == a.inc > 0 \/ a.dec > 0 \/ a.set >= 0

\* The bounds check without its upper bound.
BoundsCheckNoCeiling(b, max, limit, toggleoff) ==
    IF b < limit THEN (IF toggleoff = 1 THEN 0 ELSE limit) ELSE b

\* main, lines 632-635: the bounds check on brightness (after += change).
BoundsCheck(b, max, limit, toggleoff) ==
    IF b < limit THEN (IF toggleoff = 1 THEN 0 ELSE limit)
    ELSE IF b > max THEN max
    ELSE b

(* ------------------------- transition engine ---------------------------- *)

\* FadeTo, line 249: the target is refused.
OutOfRange(target) == target < 1 \/ target > HardCeiling

\* FadeTo, lines 252-253: no fading is done.
FadingDisabled(time, fstep) ==
    \/ time < 1 \/ time > 999
    \/ fstep[1] < 0 \/ 2 * fstep[1] > fstep[2]

\* FadeTo, lines 270-271.
FadeStepOf(chg, fstep) ==
    IF fstep[1] = 0 THEN (IF chg < 0 THEN -1 ELSE 1)
    ELSE RoundDiv(chg * fstep[1], fstep[2])

\* FadeTo, lines 288 and 311: the stepped value has reached the target.
Reached(chg, current, target) ==
    IF chg > 0 THEN current >= target ELSE current <= target

\* A last write of the stepped value, which may have passed the target.
FinalValueStepped(current, target) == current

\* FadeTo, lines 290 and 313: the value of the last write of the loop.
FinalValue(current, target) == target

\* FadeTo, lines 299 and 322: the value of
\*   (rval = nanosleep(&ts, NULL) && rval) && rval != EINTR
\* as <<new rval, condition>>; ns is what nanosleep returned.
SleepCheck(ns, rval) ==
    LET r == IF ns # 0 /\ rval # 0 THEN 1 ELSE 0
    IN  <<r, r # 0 /\ r # EINTR>>

\* FadeTo, line 333, and SetTo, line 223.
ReturnValue(rval, chars) == IF rval < 0 /\ chars > -1 THEN rval ELSE chars

\* CheckPerm, lines 195-197.
CheckPermValue(rval, chars) ==
    IF rval < 0 /\ chars > -1 THEN rval
    ELSE IF chars > 0 THEN 0 ELSE chars

\* main, lines 700 and 781: the exit status (0 is EXIT_SUCCESS).
ExitStatus(chars) == IF chars < 0 THEN 1 ELSE 0

\* main, lines 704-751: what is printed for FadeTo's result chars, by kind.
\* With -v: 0 is a limit reached or no change, -1 the guidance on
\* permissions, -2 "Nanosleep error", anything else the count written (a
\* result below -2 falls there too).  Without -v every negative result is
\* "Unable to set brightness"; -q prints nothing.
ReportKind(a, chars) ==
    IF a.quiet = 1 THEN "nothing"
    ELSE IF a.verbose = 1
         THEN (IF chars = 0 THEN "no_change"
               ELSE IF chars = -1 THEN "cannot_write"
               ELSE IF chars = -2 THEN "nanosleep_error"
               ELSE "written")
    ELSE IF chars < 0 THEN "unable_to_set"
    ELSE IF chars > 0 THEN "written"
    ELSE "no_change"

(* ------------------------------ state ---------------------------------- *)

VARIABLES
    fade_step,       \* configuration, line 118: <<numerator, denominator>>
    fade_time,       \* configuration, line 125 (ms)
    lower_limit,     \* configuration, line 134
    cmdlines,        \* the command lines the invocations may be given
    max_cell,        \* /sys/class/backlight/intel_backlight/max_brightness
    bright_cell,     \* /sys/class/backlight/intel_backlight/brightness
    bright_writable, \* whether the brightness cell can be opened for writing
    cache_cell,      \* the text of <dir>/prev_brightness, or NoFile
    lock,            \* the process holding the lock on /tmp/brightLOCK, or 0
    pc,              \* where each invocation is
    frame,           \* main's variables, per invocation
    fade             \* FadeTo's variables, per invocation

config == <<fade_step, fade_time, lower_limit, cmdlines, max_cell,
            bright_writable>>
cells == <<bright_cell, cache_cell>>
vars == <<fade_step, fade_time, lower_limit, cmdlines, max_cell, bright_cell,
          bright_writable, cache_cell, lock, pc, frame, fade>>

\* main's variables before main has run.  `action` is whether the pointer
\* of that name has been assigned; `current` is CheckPerm's local; granted
\* is whether fcntl gave this process the lock; unlock_rc is what
\* SetLock(F_UNLCK) returned.
FreshFrame ==
    [arguments |-> NoArguments, max_brightness |-> 0, brightness |-> 0,
     prev_brightness |-> 0, change |-> 0, toggleoff |-> 0, canwrite |-> 0,
     chars |-> 0, action |-> FALSE, current |-> 0, granted |-> FALSE,
     unlock_rc |-> 0]

\* FadeTo's variables outside a call of FadeTo.  errno is the errno left
\* by the last nanosleep of the call that failed (0: none has).
FreshFade ==
    [current |-> 0, change |-> 0, target |-> 0, step |-> 0, rval |-> 0,
     chars |-> 0, errno |-> 0]

\* The configuration as shipped, lines 118, 125 and 134.
ShippedStep == <<1, 10>>
ShippedTime == 170
ShippedLimit == 1

\* The builds tried: every lower limit with the shipped fade, and with the
\* shipped lower limit the finest fade (0), the coarsest (0.5) and the two
\* ways of disabling it (fade_time 0, fade_step above 0.5).
Builds ==
    { <<ShippedStep, ShippedTime, l>> : l \in 0..MaxLowerLimit }
    \cup { <<<<0, 1>>, ShippedTime, ShippedLimit>>,
           <<<<1, 2>>, ShippedTime, ShippedLimit>>,
           <<ShippedStep, 0, ShippedLimit>>,
           <<<<3, 5>>, ShippedTime, ShippedLimit>> }

\* The texts the toggle-memory file starts with.
CacheTexts ==
    { NoFile, FormatInt(0), FormatInt(5), FormatInt(MaxBright + 3) }

\* The command lines of the runs with several invocations.
FewArgs ==
    { [NoArguments EXCEPT !.argc1 = TRUE],
      [NoArguments EXCEPT !.tog = 1],
      [NoArguments EXCEPT !.inc = 5] }

InitLocals ==
    /\ lock = 0
    /\ frame = [i \in Procs |-> FreshFrame]
    /\ fade = [i \in Procs |-> FreshFade]

\* One invocation, of any build, with any command line, on any cells; the
\* maximum is absent, 0, MaxBright, or just above the ceiling of FadeTo.
Init ==
    /\ \E b \in Builds :
          fade_step = b[1] /\ fade_time = b[2] /\ lower_limit = b[3]
    /\ cmdlines = ArgSet
    /\ max_cell \in {NoCell, Cell(0), Cell(MaxBright), Cell(HardCeiling + 1)}
    /\ bright_cell \in {NoCell} \cup { Cell(v) : v \in 0..MaxBright }
    /\ bright_writable \in BOOLEAN
    /\ cache_cell \in CacheTexts
    /\ pc = [i \in Procs |-> IF i = 1 THEN "start" ELSE "off"]
    /\ InitLocals

\* NumProcs invocations of the shipped build.
InitConc ==
    /\ fade_step = ShippedStep /\ fade_time = ShippedTime
    /\ lower_limit = ShippedLimit
    /\ cmdlines = FewArgs
    /\ max_cell = Cell(MaxBright)
    /\ bright_cell \in {Cell(0), Cell(MaxBright)}
    /\ bright_writable = TRUE
    /\ cache_cell \in {NoFile, FormatInt(5)}
    /\ pc = [i \in Procs |-> "start"]
    /\ InitLocals

(* ------------------------------ process exit ----------------------------- *)

\* The lock after process i has gone: the kernel drops its locks.
LockAfterExit(l, i) == IF l = i THEN 0 ELSE l

\* exit(), a return from main, or death by a signal: the process is gone,
\* and with it its variables and its lock.
Exit(i) ==
    /\ pc' = [pc EXCEPT ![i] = "done"]
    /\ frame' = [frame EXCEPT ![i] = FreshFrame]
    /\ fade' = [fade EXCEPT ![i] = FreshFade]
    /\ lock' = LockAfterExit(lock, i)

\* A step of main that goes on to the label `next` with the frame fr.
Goto(i, next, fr) ==
    /\ pc' = [pc EXCEPT ![i] = next]
    /\ frame' = [frame EXCEPT ![i] = fr]

(* ------------------------------ SetLock ---------------------------------- *)

\* The lock after fcntl(F_SETLKW, F_WRLCK) has been granted to process i.
LockAfterGrant(l, i) == i

\* SetLock(F_WRLCK), lines 448-469, fcntl granted: the lock is free and is
\* taken; SetLock returns 0.  While another process holds the lock
\* F_SETLKW waits, so the step is not enabled.
LockAcquire(i) ==
    /\ pc[i] = "start"
    /\ lock = 0
    /\ lock' = LockAfterGrant(lock, i)
    /\ Goto(i, "read", [frame[i] EXCEPT !.granted = TRUE])
    /\ UNCHANGED <<config, cells, fade>>

\* SetLock(F_WRLCK) fails: open() fails (line 450), or fcntl fails with
\* EINTR, EACCES or EAGAIN (line 464), and main returns EXIT_FAILURE
\* (line 496); or fcntl fails with EDEADLK and SetLock exits (line 463).
LockRefused(i) ==
    /\ pc[i] = "start"
    /\ Exit(i)
    /\ UNCHANGED <<config, cells>>

\* SetLock(F_WRLCK), fcntl fails with any other errno (ENOLCK): neither
\* test of lines 462-465 holds, control reaches line 469 and SetLock
\* returns 0 with no lock taken.
LockUnchecked(i) ==
    /\ pc[i] = "start"
    /\ pc' = [pc EXCEPT ![i] = "read"]
    /\ UNCHANGED <<config, cells, lock, frame, fade>>

\* A release step that leaves the lock as it is.
LockKept(l, i) == l

\* The lock after SetLock(F_UNLCK) of process i got past open(): fcntl
\* unlocks, and close(fd) drops every lock of the process on the file.
LockAfterUnlock(l, i) == IF l = i THEN 0 ELSE l

(* ------------------------------ main ------------------------------------- *)

\* main, lines 499-505: the two cells are read; an unreadable or negative
\* maximum, or an unreadable or out-of-range brightness, exits.
ReadCells(i) ==
    /\ pc[i] = "read"
    /\ LET max == ReadSysCell(max_cell)
           b == ReadSysCell(bright_cell)
       IN  IF max < 0 \/ b < 0 \/ b > max
           THEN Exit(i)
           ELSE /\ Goto(i, "parse", [frame[i] EXCEPT !.max_brightness = max,
                                                     !.brightness = b])
                /\ UNCHANGED <<lock, fade>>
    /\ UNCHANGED <<config, cells>>

\* main, lines 508-561: the command line is parsed.  No argument at all
\* reports and returns 0 (line 526); conflicting options exit (line 560);
\* -I implies -q (line 543).
ParseArguments(i) ==
    /\ pc[i] = "parse"
    /\ \E a \in cmdlines :
          IF a.argc1 \/ InvalidArguments(a)
          THEN Exit(i)
          ELSE /\ Goto(i, "perm_read",
                       [frame[i] EXCEPT !.arguments =
                           [a EXCEPT !.quiet = IF a.iconpath = 1 THEN 1
                                               ELSE a.quiet]])
               /\ UNCHANGED <<lock, fade>>
    /\ UNCHANGED <<config, cells>>

\* parseIntArgument, lines 357-373: an argument that is no number exits.
RejectArgument(i) ==
    /\ pc[i] = "parse"
    /\ Exit(i)
    /\ UNCHANGED <<config, cells>>

\* CheckPerm, line 187: the brightness cell is read.
CheckPermRead(i) ==
    /\ pc[i] = "perm_read"
    /\ Goto(i, "perm_write",
            [frame[i] EXCEPT !.current = ReadSysCell(bright_cell)])
    /\ UNCHANGED <<config, cells, lock, fade>>

\* CheckPerm, lines 189-197, and main, lines 564-570: the value read is
\* written back.  fopen fails on a cell that is not writable; the buffered
\* fprintf returns the length and fclose does the write, which may fail.
\* Without permission, and without -v or -I, main exits.
CheckPermWrite(i) ==
    /\ pc[i] = "perm_write"
    /\ \E ok \in BOOLEAN :
          LET text == FormatInt(frame[i].current)
              rc == IF ~bright_writable THEN -1
                    ELSE CheckPermValue(IF ok THEN 0 ELSE -1, Len(text))
              canwrite == IF rc = 0 THEN 1 ELSE 0
              a == frame[i].arguments
          IN  /\ bright_cell' = IF bright_writable /\ ok
                                THEN StoreSysCell(text) ELSE bright_cell
              /\ IF canwrite = 0 /\ a.verbose = 0 /\ a.iconpath = 0
                 THEN Exit(i)
                 ELSE /\ Goto(i, "path", [frame[i] EXCEPT !.canwrite = canwrite])
                      /\ UNCHANGED <<lock, fade>>
    /\ UNCHANGED <<config, cache_cell>>

\* GetContainingPath, lines 427-440, and main, lines 573-576: an executable
\* whose path does not hold "brightness" leaves path NULL and main returns.
GetContainingPath(i) ==
    /\ pc[i] = "path"
    /\ \E found \in BOOLEAN :
          IF found
          THEN /\ pc' = [pc EXCEPT ![i] = "compute"]
               /\ UNCHANGED <<lock, frame, fade>>
          ELSE Exit(i)
    /\ UNCHANGED <<config, cells>>

\* SetTo on a regular file holding `text`, lines 216-223: the outcomes as
\* <<text afterwards, value returned>>.  Either all goes well; or fopen
\* fails and the file is as it was; or fopen has emptied the file and the
\* write, done by fclose, fails.
SetToFile(text, target) ==
    LET new == FormatInt(target)
    IN  { <<new, ReturnValue(0, Len(new))>>,
          <<text, -1>>,
          <<<< >>, ReturnValue(-1, Len(new))>> }

\* A sum that comes out one too small.
SumOffByOne(b, chg) == {<<b + chg - 1>>}

\* brightness += change, line 629: the outcomes, <<sum>> or << >> for a
\* trap; a sum past INT_MAX is undefined and wraps or traps (-ftrapv).
SumOutcomes(b, chg) ==
    IF AddOverflows(b, chg) THEN {<<WrapAdd(b, chg)>>, << >>}
    ELSE {<<b + chg>>}

\* main, lines 628-637, from the requested change and toggleoff on: the
\* sum, the bounds check and the effective change.
Clamp(i, fr, chg, toggleoff, assigned) ==
    \E sum \in SumOutcomes(fr.brightness, chg) :
       IF sum = << >>
       THEN Exit(i)
       ELSE LET b == BoundsCheck(sum[1], fr.max_brightness, lower_limit,
                                 toggleoff)
            IN  /\ Goto(i, "format",
                        [fr EXCEPT !.prev_brightness = fr.brightness,
                                   !.brightness = b,
                                   !.change = b - fr.brightness,
                                   !.toggleoff = toggleoff,
                                   !.action = assigned])
                /\ UNCHANGED <<lock, fade>>

\* main, lines 587-637: the requested change of the operation, then the
\* bounds check.  Toggling on reads the toggle memory (a value below 1
\* becomes 1); toggling off saves the brightness first and is abandoned,
\* with change 0 and `action` unassigned, when SetTo does not return > 0.
ComputeChange(i) ==
    /\ pc[i] = "compute"
    /\ LET fr == frame[i]
           a == fr.arguments
       IN  IF a.tog = 1 /\ fr.brightness = 0
           THEN /\ \E r \in ReadSysFile(cache_cell) :
                      Clamp(i, fr, IF r < 1 THEN 1 ELSE r, 0, TRUE)
                /\ UNCHANGED cache_cell
           ELSE IF a.tog = 1
           THEN \E o \in SetToFile(cache_cell, fr.brightness) :
                   /\ cache_cell' = o[1]
                   /\ IF o[2] > 0
                      THEN Clamp(i, fr, -fr.brightness, 1, TRUE)
                      ELSE Clamp(i, fr, 0, 0, FALSE)
           ELSE /\ Clamp(i, fr, RequestedChange(a, fr.brightness,
                                                fr.max_brightness),
                         0, ActionAssigned(a))
                /\ UNCHANGED cache_cell
    /\ UNCHANGED <<config, bright_cell>>

\* main, lines 639-646: sprintf(func, "%s%i", action, ...).  With `action`
\* unassigned the call is undefined: the process dies, or goes on.
FormatOutcome(i) ==
    /\ pc[i] = "format"
    /\ \E dies \in BOOLEAN :
          IF dies /\ ~frame[i].action
          THEN Exit(i)
          ELSE /\ pc' = [pc EXCEPT ![i] = "write"]
               /\ UNCHANGED <<lock, frame, fade>>
    /\ UNCHANGED <<config, cells>>

(* ------------------------------ FadeTo ----------------------------------- *)

\* FadeTo has returned rc to main, line 691.
FadeReturn(i, rc) ==
    /\ Goto(i, "unlock", [frame[i] EXCEPT !.chars = rc])
    /\ fade' = [fade EXCEPT ![i] = FreshFade]

\* main, lines 688-692, and FadeTo, lines 244-280: FadeTo is called when
\* the cell is writable and there is a change (or -v).  A zero change and a
\* target outside 1..852 return 0; with fading disabled SetTo writes the
\* target; otherwise the cell is opened unbuffered and the step computed.
WriteBrightness(i) ==
    /\ pc[i] = "write"
    /\ LET fr == frame[i]
           target == fr.prev_brightness + fr.change
           text == FormatInt(target)
       IN  IF ~(fr.canwrite = 1 /\ (fr.change # 0 \/ fr.arguments.verbose = 1))
           THEN /\ FadeReturn(i, IF fr.canwrite = 1 THEN 0 ELSE -1)
                /\ UNCHANGED bright_cell
           ELSE IF fr.change = 0 \/ OutOfRange(target)
           THEN /\ FadeReturn(i, 0)
                /\ UNCHANGED bright_cell
           ELSE IF FadingDisabled(fade_time, fade_step)
           THEN \E ok \in BOOLEAN :
                   /\ bright_cell' = IF ok /\ bright_writable
                                     THEN StoreSysCell(text) ELSE bright_cell
                   /\ FadeReturn(i, IF ok /\ bright_writable
                                    THEN ReturnValue(0, Len(text)) ELSE -1)
           ELSE \E o \in {"open", "nofopen", "nosetvbuf"} :
                   /\ IF o = "nofopen" \/ ~bright_writable
                      THEN FadeReturn(i, -1)
                      ELSE IF o = "nosetvbuf"
                      THEN FadeReturn(i, -2)
                      ELSE /\ pc' = [pc EXCEPT ![i] = "fade_loop"]
                           /\ fade' = [fade EXCEPT ![i] =
                                 [current |-> fr.prev_brightness,
                                  change |-> fr.change,
                                  target |-> target,
                                  step |-> FadeStepOf(fr.change, fade_step),
                                  rval |-> 0, chars |-> 0, errno |-> 0]]
                           /\ UNCHANGED frame
                   /\ UNCHANGED bright_cell
    /\ UNCHANGED <<config, cache_cell, lock>>

\* FadeTo, lines 285-298 and 308-321: one turn of the stepping loop up to
\* its write.  The stepped value has reached the target: the target is
\* written and the loop is left.  Otherwise the stepped value is written;
\* a failed write leaves the loop with rval -2.
FadeStep(i) ==
    /\ pc[i] = "fade_loop"
    /\ LET f == fade[i]
           current == f.current + f.step
       IN  \E ok \in BOOLEAN :
              IF Reached(f.change, current, f.target)
              THEN LET text == FormatInt(FinalValue(current, f.target))
                   IN  /\ bright_cell' = IF ok THEN StoreSysCell(text)
                                         ELSE bright_cell
                       /\ fade' = [fade EXCEPT ![i] =
                             [f EXCEPT !.current = current,
                                       !.chars = IF ok THEN Len(text) ELSE -1,
                                       !.rval = IF ok THEN 0 ELSE -2]]
                       /\ pc' = [pc EXCEPT ![i] = "fade_close"]
              ELSE /\ bright_cell' = IF ok THEN StoreSysCell(FormatInt(current))
                                     ELSE bright_cell
                   /\ fade' = [fade EXCEPT ![i] =
                         [f EXCEPT !.current = current,
                                   !.chars = IF ok THEN 0 ELSE 1,
                                   !.rval = IF ok THEN f.rval ELSE -2]]
                   /\ pc' = [pc EXCEPT ![i] = IF ok THEN "fade_sleep"
                                              ELSE "fade_close"]
    /\ UNCHANGED <<config, cache_cell, lock, frame>>

\* What nanosleep may do: <<value returned, errno set>>.
SleepOutcomes == { <<0, 0>>, <<-1, EINTR>>, <<-1, EOTHER>> }

\* FadeTo, lines 299-303 and 322-326: the pause between two writes, and the
\* test of its result.
FadeSleep(i) ==
    /\ pc[i] = "fade_sleep"
    /\ \E ns \in SleepOutcomes :
          LET sc == SleepCheck(ns[1], fade[i].rval)
          IN  /\ fade' = [fade EXCEPT
                    ![i].rval = IF sc[2] THEN -3 ELSE sc[1],
                    ![i].errno = IF ns[1] = 0 THEN @ ELSE ns[2]]
              /\ pc' = [pc EXCEPT ![i] = IF sc[2] THEN "fade_close"
                                         ELSE "fade_loop"]
    /\ UNCHANGED <<config, cells, lock, frame>>

\* FadeTo, lines 329-333: the stream is closed (its result counts only
\* when rval > -1) and the value is returned.
FadeClose(i) ==
    /\ pc[i] = "fade_close"
    /\ \E closed \in BOOLEAN :
          LET f == fade[i]
              rval == IF f.rval > -1 THEN (IF closed THEN 0 ELSE -1) ELSE f.rval
          IN  FadeReturn(i, ReturnValue(rval, f.chars))
    /\ UNCHANGED <<config, cells, lock>>

(* ------------------------------ the end of main -------------------------- *)

\* main, line 694: SetLock(F_UNLCK).  open() may fail (line 450), and then
\* nothing is unlocked and -1 is returned; main does not look at it.
Unlock(i) ==
    /\ pc[i] = "unlock"
    /\ \E opened \in BOOLEAN :
          /\ lock' = IF opened THEN LockAfterUnlock(lock, i) ELSE lock
          /\ Goto(i, "report",
                  [frame[i] EXCEPT !.unlock_rc = IF opened THEN 0 ELSE -1])
    /\ UNCHANGED <<config, cells, fade>>

\* main, lines 696-781: the outcome is printed and main returns
\* ExitStatus(chars).
Report(i) ==
    /\ pc[i] = "report"
    /\ Exit(i)
    /\ UNCHANGED <<config, cells>>

(* ------------------------------ specifications --------------------------- *)

Proc(i) ==
    \/ LockAcquire(i)
    \/ LockRefused(i)
    \/ LockUnchecked(i)
    \/ ReadCells(i)
    \/ ParseArguments(i)
    \/ RejectArgument(i)
    \/ CheckPermRead(i)
    \/ CheckPermWrite(i)
    \/ GetContainingPath(i)
    \/ ComputeChange(i)
    \/ FormatOutcome(i)
    \/ WriteBrightness(i)
    \/ FadeStep(i)
    \/ FadeSleep(i)
    \/ FadeClose(i)
    \/ Unlock(i)
    \/ Report(i)

Next == \E i \in Procs : Proc(i)

\* One invocation: every build, command line and cell content.
Spec == Init /\ [][Next]_vars

\* NumProcs invocations of the shipped build.
ConcSpec == InitConc /\ [][Next]_vars

\* The same, every invocation that can take a step eventually taking one:
\* the scheduler starves no process.
FairConcSpec == ConcSpec /\ \A i \in Procs : WF_vars(Proc(i))

(* ------------------------------ claims ----------------------------------- *)

\* The value the brightness cell holds (-1: it cannot be opened).
Bright == IF bright_cell = NoCell THEN -1 ELSE bright_cell[1]

\* FadeTo is in its stepping loop.
InLoop(i) == pc[i] \in {"fade_loop", "fade_sleep"}

\* C1: a toggle-off (toggle flag, brightness v > 0, toggle memory saved, so
\* toggleoff = 1) on a writable cell leaves the cell at 0 when FadeTo has
\* returned, whatever lower_limit is.
C1_ToggleOffZero ==
    \A i \in Procs :
       (pc[i] = "unlock" /\ frame[i].toggleoff = 1 /\ frame[i].canwrite = 1)
          => Bright = 0

\* The clamp step has run in invocation i: the target is in [0, max], it is
\* at least lower_limit unless this is a toggle-off, and the effective
\* change is target - current.
ClampResult(i) ==
    LET fr == frame[i]
    IN  /\ 0 <= fr.brightness /\ fr.brightness <= fr.max_brightness
        /\ fr.toggleoff = 0 => fr.brightness >= lower_limit
        /\ fr.change = fr.brightness - fr.prev_brightness

\* C2, as claimed: for every current in [0, max], every requested change
\* and every lower_limit >= 0 the clamp gives ClampResult.
C2_ClampTotal ==
    \A i \in Procs : pc[i] = "format" => ClampResult(i)

\* C2, amended: the same for every lower_limit in [0, max].
C2_ClampWithinMax ==
    \A i \in Procs :
       (pc[i] = "format" /\ lower_limit <= frame[i].max_brightness)
          => ClampResult(i)

\* C2: -i INT_MAX from a brightness above 0 has wrapped and been clamped
\* to a lower limit of 2.
C2_Witness ==
    /\ pc[1] = "format"
    /\ frame[1].arguments.inc = IntMax
    /\ frame[1].prev_brightness > 0
    /\ lower_limit = 2
    /\ frame[1].brightness = lower_limit
    /\ lower_limit <= frame[1].max_brightness

\* C3: in the stepping loop the step is not 0 and has the sign of the
\* change, so that the loop makes progress towards its target.
C3_StepProgress ==
    \A i \in Procs :
       InLoop(i) => /\ fade[i].step # 0
                    /\ (fade[i].step > 0) = (fade[i].change > 0)

\* C4: every value the stepping loop writes lies beyond the value written
\* before it (the start, for the first) in the direction of the change, and
\* not beyond the target.
C4_Monotone ==
    [][\A i \in Procs :
          (pc[i] = "fade_loop" /\ pc'[i] \in {"fade_sleep", "fade_close"}
           /\ fade'[i].rval >= 0)
             => IF fade[i].change > 0
                THEN Bright' > fade[i].current /\ Bright' <= fade[i].target
                ELSE Bright' < fade[i].current /\ Bright' >= fade[i].target]_vars

\* C5: when FadeTo has returned a positive count for a change that is not
\* 0, the cell holds start + change exactly.
C5_ExactTermination ==
    \A i \in Procs :
       (pc[i] = "unlock" /\ frame[i].chars > 0 /\ frame[i].change # 0)
          => Bright = frame[i].prev_brightness + frame[i].change

\* C5: a fade of +5 in steps of 3 (fade_step 0.5) has returned success.
C5_Witness ==
    /\ pc[1] = "unlock"
    /\ frame[1].chars > 0
    /\ frame[1].change = 5
    /\ fade_step = <<1, 2>>
    /\ Bright = frame[1].prev_brightness + 5

\* C6: every step in which an invocation writes the brightness cell (the
\* write of CheckPerm, the write of SetTo, a write of the stepping loop) is
\* taken while that invocation holds the lock.
C6_WritesUnderLock ==
    [][\A i \in Procs :
          (pc[i] \in {"perm_write", "write", "fade_loop"} /\ pc'[i] # pc[i]
           /\ bright_cell' # bright_cell)
             => lock = i]_vars

\* The places main ends at before it has reached the write of line 687.
EarlyExits == {"read", "parse", "perm_write", "path", "compute", "format"}

\* The places from the write of line 687 up to SetLock(F_UNLCK).
WriteStage == {"write", "fade_loop", "fade_sleep", "fade_close"}

\* C7, as claimed: an invocation that was granted the lock ends only after
\* the release step, SetLock(F_UNLCK).
C7_ReleaseStepOnEveryPath ==
    [][\A i \in Procs :
          (pc[i] # "done" /\ pc'[i] = "done" /\ frame[i].granted)
             => pc[i] = "report"]_vars

\* C7, amended: an invocation that was granted the lock holds it no more
\* once it has ended.  From the write of line 687 on, every path goes
\* through the release step, which drops the lock unless its open() fails;
\* an invocation that ends earlier (or whose release failed) ends with the
\* lock still its own, and it is the end of the process that drops it.
C7_ReleasedAtEnd ==
    [][\A i \in Procs :
          /\ pc'[i] = "done" => lock' # i
          /\ (pc[i] \in WriteStage /\ pc'[i] # pc[i])
                => pc'[i] \in WriteStage \cup {"unlock"}
          /\ (pc[i] = "unlock" /\ pc'[i] = "report"
              /\ frame'[i].unlock_rc = 0) => lock' # i
          /\ (pc[i] # "done" /\ pc'[i] = "done" /\ frame[i].granted
              /\ lock = i)
                => \/ pc[i] \in EarlyExits
                   \/ pc[i] = "report" /\ frame[i].unlock_rc = -1]_vars

\* C7: an invocation that was granted the lock has got through the release
\* step after a failed write, and the lock is free.
C7_Witness ==
    /\ pc[1] = "report"
    /\ frame[1].granted
    /\ frame[1].unlock_rc = 0
    /\ frame[1].chars < 0
    /\ lock = 0

\* Invocation i toggles on from 0 with a toggle memory that is unreadable
\* or holds a value < 1, max >= 1 and a lower limit that allows 1.
ToggleOnDefault(i) ==
    /\ frame[i].arguments.tog = 1
    /\ frame[i].prev_brightness = 0
    /\ frame[i].max_brightness >= 1
    /\ lower_limit <= 1
    /\ \A r \in ReadSysFile(cache_cell) : r < 1

\* C8: in a toggle-on to the default, once FadeTo has written the cell, or
\* has returned success, the cell holds 1.
C8_ToggleOnDefault ==
    \A i \in Procs :
       ( /\ ToggleOnDefault(i)
         /\ \/ pc[i] = "fade_sleep"
            \/ pc[i] = "fade_close" /\ fade[i].chars # -1 /\ fade[i].rval # -2
            \/ pc[i] = "unlock" /\ frame[i].chars >= 0 /\ frame[i].canwrite = 1 )
          => Bright = 1

\* C9: an invocation that holds the lock lets go of it in the end, so that
\* an invocation waiting for the lock gets it.
C9_HolderReleases ==
    \A i \in Procs : (lock = i) ~> (lock # i)

\* C10: after a nanosleep that failed with an errno other than EINTR the
\* stepping loop does not go round again.
C10_PacingFailureAborts ==
    \A i \in Procs : pc[i] = "fade_loop" => fade[i].errno # EOTHER


\* C11: when a write of the stepping loop has failed (rval -2), FadeTo
\* writes nothing more, the cell keeps the value last written, and the
\* negative result gives a failing exit status and is reported as a failure
\* to store, not as any other kind of failure.
C11_WriteFailureIsStoreFailure ==
    [][\A i \in Procs :
          (pc[i] = "fade_close" /\ fade[i].rval = -2 /\ pc'[i] = "unlock")
             => /\ bright_cell' = bright_cell
                /\ frame'[i].chars < 0
                /\ ExitStatus(frame'[i].chars) = 1
                /\ ReportKind(frame'[i].arguments, frame'[i].chars)
                      \in {"cannot_write", "unable_to_set", "nothing"}]_vars


\* The stages of main after the change has been computed.
AfterCompute ==
    {"format", "write", "fade_loop", "fade_sleep", "fade_close", "unlock",
     "report"}

\* CheckPerm returned 0 to process i (canwrite = !CheckPerm(BRIGHTNESS)):
\* its fprintf and fclose have written the brightness cell.
ProbeWrote(i) == frame[i].canwrite = 1

\* C12 (as stated): an invocation whose clamped change is zero makes no
\* write at all to the brightness cell.
C12_ZeroDeltaUntouched ==
    \A i \in Procs :
       (pc[i] \in {"unlock", "report"} /\ frame[i].change = 0)
          => ~ProbeWrote(i)

\* C12 (amended): with a clamped change of zero FadeTo never enters its
\* loop and returns 0 without a write, so that the only write of the
\* invocation is CheckPerm's, of the value just read, and the cell holds
\* the value it had at the start.
C12_ZeroDeltaKeepsValue ==
    \A i \in Procs :
       (pc[i] \in AfterCompute /\ frame[i].change = 0)
          => /\ ~InLoop(i) /\ pc[i] # "fade_close"
             /\ Bright = frame[i].prev_brightness
             /\ pc[i] \in {"unlock", "report"}
                   => frame[i].chars = (IF frame[i].canwrite = 1 THEN 0 ELSE -1)

\* FadeTo was called with a change of zero (-v -s 5 at brightness 5) after
\* CheckPerm wrote the cell, and returned 0.
C12_Witness ==
    /\ pc[1] = "unlock" /\ frame[1].change = 0 /\ ProbeWrote(1)
    /\ frame[1].arguments.verbose = 1 /\ frame[1].arguments.set = 5
    /\ frame[1].prev_brightness = 5 /\ frame[1].chars = 0 /\ Bright = 5


\* Process j is the invocation that follows process i: i has released the
\* lock it was granted and has only its report left, and j, granted the
\* lock since, has computed its change.
Follows(i, j) ==
    /\ i # j
    /\ pc[i] = "report" /\ frame[i].granted /\ frame[i].unlock_rc = 0
    /\ pc[j] = "format" /\ frame[j].granted /\ lock = j

\* C13: when a toggle that turned the screen off from v > 0 (the memory
\* saved, the cell writable, no failure) is followed by a toggle, that one
\* turns the screen on: it starts from 0 and its target is min(v, max).
C13_ToggleRoundTrip ==
    \A i, j \in Procs :
       (/\ Follows(i, j)
        /\ frame[i].toggleoff = 1 /\ frame[i].canwrite = 1
        /\ frame[i].chars >= 0
        /\ frame[j].arguments.tog = 1)
          => /\ frame[j].toggleoff = 0
             /\ frame[j].prev_brightness = 0
             /\ frame[j].brightness =
                   (IF frame[i].prev_brightness < frame[j].max_brightness
                    THEN frame[i].prev_brightness
                    ELSE frame[j].max_brightness)


\* Process i ran a toggle from a brightness above 0 and did not get to
\* toggleoff = 1: saving the brightness failed (SetTo returned <= 0).
AbortedToggleOff(i) ==
    /\ pc[i] \in AfterCompute
    /\ frame[i].arguments.tog = 1 /\ frame[i].prev_brightness > 0
    /\ frame[i].toggleoff = 0

\* What C14 says of an aborted toggle-off: the change is 0, FadeTo is not
\* in its loop and the cell holds the value it had at the start.
NothingDone(i) ==
    /\ frame[i].change = 0
    /\ ~InLoop(i) /\ pc[i] # "fade_close"
    /\ Bright = frame[i].prev_brightness

\* C14 (as stated): after a toggle-off that failed to save the brightness,
\* whatever the brightness was, nothing is done to the cell.
C14_AbortedToggleOff == \A i \in Procs : AbortedToggleOff(i) => NothingDone(i)

\* C14 (amended): the same of a toggle-off from a brightness that is not
\* below lower_limit.
C14_AbortedToggleOffAboveLimit ==
    \A i \in Procs :
       (AbortedToggleOff(i) /\ frame[i].prev_brightness >= lower_limit)
          => NothingDone(i)

\* An aborted toggle-off under -v, for which FadeTo was called and
\* returned 0, with `action` never assigned.
C14_Witness ==
    /\ AbortedToggleOff(1) /\ pc[1] = "unlock"
    /\ frame[1].prev_brightness >= lower_limit
    /\ frame[1].arguments.verbose = 1 /\ frame[1].canwrite = 1
    /\ ~frame[1].action /\ frame[1].chars = 0
    /\ Bright = frame[1].prev_brightness


\* C15: an invocation with an operation and a nonzero clamped change that
\* ends with exit status success has left the cell at the clamped target
\* computed in main (here for the targets of 1 and more, whatever max is;
\* the target 0 is the case of C1).
C15_SuccessMeansTarget ==
    \A i \in Procs :
       (/\ pc[i] = "report"
        /\ totalNonPassive(frame[i].arguments) = 1
        /\ frame[i].change # 0 /\ frame[i].brightness >= 1
        /\ ExitStatus(frame[i].chars) = 0)
          => Bright = frame[i].brightness

====
